---- MODULE Spec2Model ----
(***************************************************************************)
(* Streaming relays of nf-snowflake:                                       *)
(*   "line" : LogFileWebSocketServer  (docker/nf-snowflake/log_server.py)  *)
(*   "raw"  : NextflowLogServer (docker/nf-snowflake/websocket_log_server.py)*)
(*   "pty"  : NextflowPTYServer       (docker/nf-snowflake/pty_server.py)  *)
(* Each relay is a set of asyncio tasks on one event loop; a step of the   *)
(* model is the code a task runs between two suspension points.  The log   *)
(* file, the sentinel (exit-code) file, the network and the child process  *)
(* are changed by other processes and interleave freely.                   *)
(***************************************************************************)
EXTENDS Integers, Sequences, FiniteSets, TLC

\* ---------------------------------------------------------------- bounds
MaxConns == 2       \* connection attempts in a run
MaxFile == 2        \* bytes the producer writes to the log file in a run
MaxTruncs == 1      \* truncations of the log file in a run
FewConns == 1       \* connection attempts where the claims are about the data
FewBytes == 1       \* bytes written where the claims are about the exit code

Conns == 1..MaxConns

\* Optional values: <<>> is None, <<v>> is the value v.
None == <<>>
Some(v) == <<v>>

\* --------------------------------------------------------------- bytes
\* "a" an ASCII byte, "NL" the byte \n, "L" the lead byte of a two-byte
\* UTF-8 character, "T" its continuation byte.
Bytes == {"a", "NL", "L", "T"}

\* bytes.decode('utf-8', errors='replace'): "E" is the character encoded by
\* L T, "?" is U+FFFD, which replaces every byte that is not part of a
\* complete sequence.
RECURSIVE Decode(_)
Decode(b) ==
    IF b = <<>> THEN <<>>
    ELSE IF b[1] = "L"
         THEN IF Len(b) >= 2 /\ b[2] = "T"
              THEN <<"E">> \o Decode(SubSeq(b, 3, Len(b)))
              ELSE <<"?">> \o Decode(Tail(b))
         ELSE IF b[1] = "T"
              THEN <<"?">> \o Decode(Tail(b))
              ELSE <<b[1]>> \o Decode(Tail(b))

\* str.rstrip('\n\r')
RECURSIVE RStrip(_)
RStrip(s) ==
    IF s # <<>> /\ s[Len(s)] \in {"NL", "CR"}
    THEN RStrip(SubSeq(s, 1, Len(s) - 1))
    ELSE s

\* f.readline() of a binary file at offset p: the bytes up to and including
\* the next \n, or up to the end of the file; empty at or past the end.
RECURSIVE LineEnd(_, _)
LineEnd(f, i) ==
    IF i >= Len(f) THEN Len(f)
    ELSE IF f[i + 1] = "NL" THEN i + 1 ELSE LineEnd(f, i + 1)

ReadLine(f, p) ==
    IF p >= Len(f) THEN <<>> ELSE SubSeq(f, p + 1, LineEnd(f, p))

\* ----------------------------------------------------- sentinel contents
Digits == {"0", "1", "2", "3", "4", "5", "6", "7", "8", "9"}
DigitVal(ch) ==
    CASE ch = "0" -> 0 [] ch = "1" -> 1 [] ch = "2" -> 2 [] ch = "3" -> 3
      [] ch = "4" -> 4 [] ch = "5" -> 5 [] ch = "6" -> 6 [] ch = "7" -> 7
      [] ch = "8" -> 8 [] ch = "9" -> 9

Space == {" ", "NL"}

\* str.strip()
RECURSIVE LStrip(_)
LStrip(s) == IF s # <<>> /\ s[1] \in Space THEN LStrip(Tail(s)) ELSE s
RECURSIVE RStripSpace(_)
RStripSpace(s) ==
    IF s # <<>> /\ s[Len(s)] \in Space
    THEN RStripSpace(SubSeq(s, 1, Len(s) - 1))
    ELSE s
Strip(s) == RStripSpace(LStrip(s))

RECURSIVE DigitsVal(_, _)
DigitsVal(s, acc) ==
    IF s = <<>> THEN acc ELSE DigitsVal(Tail(s), 10 * acc + DigitVal(s[1]))

AllDigits(s) == s # <<>> /\ \A i \in 1..Len(s) : s[i] \in Digits

\* A parse that loses the sign.
ParseIntUnsigned(text) ==
    LET s == Strip(text) IN
    IF s # <<>> /\ s[1] \in {"-", "+"}
    THEN IF AllDigits(Tail(s)) THEN Some(DigitsVal(Tail(s), 0)) ELSE None
    ELSE IF AllDigits(s) THEN Some(DigitsVal(s, 0)) ELSE None

\* int(text.strip()): Some(n), or None where Python raises ValueError.
ParseInt(text) ==
    LET s == Strip(text) IN
    IF s # <<>> /\ s[1] \in {"-", "+"}
    THEN IF AllDigits(Tail(s))
         THEN Some((IF s[1] = "-" THEN -1 ELSE 1) * DigitsVal(Tail(s), 0))
         ELSE None
    ELSE IF AllDigits(s) THEN Some(DigitsVal(s, 0)) ELSE None

DigitChar(d) ==
    CASE d = 0 -> "0" [] d = 1 -> "1" [] d = 2 -> "2" [] d = 3 -> "3"
      [] d = 4 -> "4" [] d = 5 -> "5" [] d = 6 -> "6" [] d = 7 -> "7"
      [] d = 8 -> "8" [] d = 9 -> "9"

RECURSIVE NatStr(_)
NatStr(n) ==
    IF n < 10 THEN <<DigitChar(n)>> ELSE NatStr(n \div 10) \o <<DigitChar(n % 10)>>

\* str(n)
Str(n) == IF n < 0 THEN <<"-">> \o NatStr(-n) ELSE NatStr(n)

\* Exit codes a command can end with (negative: killed by a signal).
ExitCodes == {0, 7, 12, -9}

\* What a writer may leave in the sentinel file.
SentinelTexts ==
    {Str(n) : n \in ExitCodes} \cup { <<"7", "NL">>, <<"x">> }

VARIABLES
    server,            \* which relay this run is
    client_websocket,  \* self.client_websocket: None or the admitted connection
    conn,              \* conn[c]: where connection c's handle_websocket is
    net,               \* net[c]: "up", or "down" once the transport is broken
    closeMsg,          \* closeMsg[c]: the close message sent to c by the server
    sent,              \* sent[c]: the messages written to connection c, in order
    logfile,           \* contents of the log file
    logExists,         \* whether the log file exists
    nWritten,          \* bytes appended so far
    nTruncs,           \* truncations so far
    sentinel,          \* "absent", "present" or "unreadable"
    sentinelText,      \* contents of the sentinel file
    cutBelow,          \* history: the file was cut below the reader's cursor
                       \*   and the cursor has not been reset since
    last_offset,       \* history: last_offset[c] is the file offset of the
                       \*   last Output chunk written to connection c
    running,           \* self.running
    exit_code,         \* self.exit_code
    srv_pc, srv_ret,   \* start_server: position and return value
    tail_pc,           \* tail_log_file: position
    pos,               \* tail_log_file: f.tell()
    line_count,        \* tail_log_file: line_count
    watch_pc,          \* watch_exit_code_file: position
    readText,          \* what the relay read from the sentinel file
    streaming_task,    \* NextflowLogServer: self.streaming_task, None or the
                       \*   task made by the handler of that connection
    task,              \* task[c]: the stream_logs task made for connection c
    pty_pc, pty_ret,   \* NextflowPTYServer: start_server / run_nextflow
    proc,              \* the child process
    ptybuf,            \* bytes written to the pty and not yet read
    childOut,          \* history: everything the child has written
    master_fd,         \* self.master_fd
    fd_closes,         \* history: os.close(self.master_fd) calls so far
    raised,            \* history: the exception pty.openpty or Popen raised
    read_pc,           \* read_pty_output: position
    thr,               \* the executor thread running _read_pty_data
    inflight,          \* what that thread's os.read returned
    tool_pc,           \* nextflow_runner.py / pty_wrapper.py: position in main
    out_f,             \* their output file object: "none", "open", "closed"
    tool_code,         \* main's local exit_code
    tool_exit          \* the exit status of the tool's own process

vars == <<server, client_websocket, conn, net, closeMsg, sent, logfile,
          logExists, nWritten, nTruncs, sentinel, sentinelText, cutBelow,
          last_offset, running,
          exit_code, srv_pc, srv_ret, tail_pc, pos, line_count, watch_pc,
          readText, streaming_task, task, pty_pc, pty_ret, proc, ptybuf,
          childOut, master_fd, fd_closes, raised, read_pc, thr, inflight,
          tool_pc, out_f, tool_code, tool_exit>>

gateVars == <<client_websocket, conn, net, closeMsg, sent>>
envVars == <<logfile, logExists, nWritten, nTruncs, sentinel, sentinelText>>
histVars == <<cutBelow, last_offset>>
lineVars == <<running, exit_code, srv_pc, srv_ret, tail_pc, pos, line_count,
              watch_pc, readText>>
lineOnly == <<running, srv_pc, srv_ret, tail_pc, pos, line_count, watch_pc>>
rawVars == <<streaming_task, task>>
toolVars == <<tool_pc, out_f, tool_code, tool_exit>>
ptyVars == <<pty_pc, pty_ret, proc, ptybuf, childOut, master_fd, fd_closes,
             raised, read_pc, thr, inflight>>

\* ------------------------------------------------------------- messages
Msg(type, data, status, code, lines) ==
    [type |-> type, data |-> data, status |-> status,
     exit_code |-> code, lines_sent |-> lines]

Output(data) == Msg("output", data, "", None, None)
Status(status) == Msg("status", <<>>, status, None, None)

\* ------------------------------------------------------------ send_message
\* The connection a send is written to, None when there is none or the
\* write raises.
\* A send_message without the test for None, writing to the first connection
\* when no session is admitted.
SendTargetUnguarded ==
    IF client_websocket # None /\ net[client_websocket[1]] = "up"
    THEN client_websocket ELSE Some(1)

SendTarget ==
    IF client_websocket # None /\ net[client_websocket[1]] = "up"
    THEN client_websocket ELSE None

\* A send_message that keeps the handle when the write raises.
GateKeptOnFailure == client_websocket

\* self.client_websocket after send_message: a send that raises clears it.
GateAfterSend ==
    IF client_websocket # None /\ net[client_websocket[1]] = "down"
    THEN None ELSE client_websocket

SentAfter(m) ==
    IF SendTarget # None
    THEN [sent EXCEPT ![SendTarget[1]] = Append(@, m)]
    ELSE sent

\* last_offset after an Output chunk read at offset o has been sent.
OffsetAfter(o) ==
    IF SendTarget # None
    THEN [last_offset EXCEPT ![SendTarget[1]] = o]
    ELSE last_offset

send_message(m) ==
    /\ sent' = SentAfter(m)
    /\ client_websocket' = GateAfterSend

Completed(lines, code) == Msg("status", <<>>, "completed", code, lines)

\* asyncio runs one task at a time: while a task is between two awaits no
\* other task of the relay runs.  A reader at "run" is inside its loop after
\* a step that did not suspend (send_message with no client returns without
\* awaiting; a Status message never waits for the transport).  A reader at
\* "ready" has suspended in a send of output that waited for the transport
\* to drain.
LoopFree ==
    /\ tail_pc # "run"
    /\ \A c \in Conns : task[c].pc # "run"
    /\ read_pc # "run"

Serving ==
    CASE server = "line" -> srv_pc # "done"
      [] server = "pty" -> pty_pc # "done"
      [] OTHER -> TRUE

\* ------------------------------------------------------------ environment
\* The producer creates the log file (open(output_file, 'wb')).
CreateLog ==
    /\ ~logExists
    /\ logExists' = TRUE
    /\ UNCHANGED <<logfile, nWritten, nTruncs, sentinel, sentinelText>>

\* The producer appends output; it has finished writing (and closed the
\* file) before the sentinel is created.
AppendLog(b, cap) ==
    /\ logExists /\ sentinel = "absent" /\ nWritten < cap
    /\ logfile' = Append(logfile, b)
    /\ nWritten' = nWritten + 1
    /\ UNCHANGED <<logExists, nTruncs, sentinel, sentinelText>>

\* open(exit_code_file, 'w'): the sentinel exists and is empty.
OpenSentinel ==
    /\ logExists /\ sentinel = "absent"
    /\ sentinel' = "present" /\ sentinelText' = <<>>
    /\ UNCHANGED <<logfile, logExists, nWritten, nTruncs>>

\* f.write(...): the sentinel gets its contents.
FillSentinel(t) ==
    /\ sentinel = "present" /\ sentinelText = <<>> /\ t # <<>>
    /\ sentinelText' = t
    /\ UNCHANGED <<logfile, logExists, nWritten, nTruncs, sentinel>>

\* A sentinel that exists and cannot be opened (open raises IOError).
UnreadableSentinel ==
    /\ logExists /\ sentinel = "absent"
    /\ sentinel' = "unreadable"
    /\ UNCHANGED <<logfile, logExists, nWritten, nTruncs, sentinelText>>

\* The log file is truncated to k bytes (rotation, copytruncate).
Truncate(k) ==
    /\ logExists /\ nTruncs < MaxTruncs /\ k < Len(logfile)
    /\ logfile' = SubSeq(logfile, 1, k)
    /\ nTruncs' = nTruncs + 1
    /\ cutBelow' = (cutBelow \/ (tail_pc \in {"ready", "run", "sleep"} /\ k < pos))
    /\ UNCHANGED last_offset
    /\ UNCHANGED <<logExists, nWritten, sentinel, sentinelText>>

\* The transport of an admitted connection breaks (peer gone, reset).
PeerBreak(c) ==
    /\ conn[c] = "admitted" /\ net[c] = "up"
    /\ net' = [net EXCEPT ![c] = "down"]
    /\ UNCHANGED <<client_websocket, conn, closeMsg, sent>>

\* ------------------------------------------------------- handle_websocket
\* A busy check that lets every connection in.
NeverBusy == FALSE

\* if self.client_websocket is not None
IsBusy == client_websocket # None

\* A connection arrives: ws.prepare(request), then the busy check and the
\* registration that follows it without suspending.  Connections are
\* numbered in the order they arrive.
Connect(c) ==
    /\ Serving /\ LoopFree
    /\ conn[c] = "new"
    /\ \A d \in Conns : d < c => conn[d] # "new"
    /\ IF IsBusy
       THEN /\ conn' = [conn EXCEPT ![c] = "rejected"]
            /\ closeMsg' = [closeMsg EXCEPT ![c] = "Server busy"]
            /\ UNCHANGED client_websocket
       ELSE /\ conn' = [conn EXCEPT ![c] = "admitted"]
            /\ client_websocket' = Some(c)
            /\ UNCHANGED closeMsg
    /\ UNCHANGED <<net, sent>>

\* self.client_websocket in the handler's finally block
GateAfterExit(c) == None

\* The handler's message loop ends (the peer is gone): finally block.
HandlerExit(c) ==
    /\ Serving /\ LoopFree
    /\ conn[c] = "admitted" /\ net[c] = "down"
    /\ conn' = [conn EXCEPT ![c] = "closed"]
    /\ client_websocket' = GateAfterExit(c)
    /\ UNCHANGED <<net, closeMsg, sent>>

\* ------------------------------------- LogFileWebSocketServer.start_server
\* The wait for a client ends; tail_log_file and watch_exit_code_file start.
SrvAdmit ==
    /\ srv_pc = "wait_client" /\ LoopFree
    /\ client_websocket # None \/ ~running
    /\ IF ~running
       THEN /\ srv_pc' = "done" /\ srv_ret' = Some(0)
            /\ UNCHANGED <<tail_pc, watch_pc>>
       ELSE /\ srv_pc' = "gather"
            /\ tail_pc' = "start" /\ watch_pc' = "poll"
            /\ UNCHANGED srv_ret
    /\ UNCHANGED <<running, exit_code, pos, line_count, readText>>
    /\ UNCHANGED <<gateVars, envVars>>
    /\ UNCHANGED histVars

\* asyncio.gather returns when both tasks are done; then sleep(2).
SrvGather ==
    /\ srv_pc = "gather" /\ LoopFree
    /\ tail_pc = "done" /\ watch_pc = "done"
    /\ srv_pc' = "linger"
    /\ UNCHANGED <<running, exit_code, srv_ret, tail_pc, pos, line_count,
                   watch_pc, readText>>
    /\ UNCHANGED <<gateVars, envVars>>
    /\ UNCHANGED histVars

\* A return value that counts only while an observer is connected.
ReturnValueIfObserved ==
    IF exit_code # None /\ client_websocket # None THEN exit_code ELSE Some(0)

\* return self.exit_code if self.exit_code is not None else 0
ReturnValue == IF exit_code # None THEN exit_code ELSE Some(0)

\* The return, and the finally block: running = False, runner.cleanup()
\* ends every connection handler.
SrvReturn ==
    /\ srv_pc = "linger" /\ LoopFree
    /\ srv_ret' = ReturnValue
    /\ running' = FALSE
    /\ srv_pc' = "done"
    /\ conn' = [c \in Conns |->
                  IF conn[c] = "admitted" THEN "closed" ELSE conn[c]]
    /\ client_websocket' = None
    /\ UNCHANGED <<net, closeMsg, sent>>
    /\ UNCHANGED <<exit_code, tail_pc, pos, line_count, watch_pc, readText>>
    /\ UNCHANGED envVars
    /\ UNCHANGED histVars

\* --------------------------------- LogFileWebSocketServer.tail_log_file
\* A reader that starts at the end of what the file holds.
StartAtEnd == Len(logfile)

\* The offset of a file that has just been opened for reading.
StartOffset == 0

\* The start of tail_log_file: the log file is there, or has to be waited for.
TailStart ==
    /\ tail_pc = "start" /\ LoopFree
    /\ IF logExists
       THEN /\ send_message(Status("started"))
            /\ tail_pc' = "run"
       ELSE /\ send_message(Status("waiting"))
            /\ tail_pc' = "waitfile"
    /\ pos' = StartOffset /\ line_count' = 0
    /\ UNCHANGED <<conn, net, closeMsg>>
    /\ UNCHANGED <<running, exit_code, srv_pc, srv_ret, watch_pc, readText>>
    /\ UNCHANGED envVars
    /\ UNCHANGED histVars

\* wait_for_file finds the file.
TailFileFound ==
    /\ tail_pc = "waitfile" /\ LoopFree
    /\ logExists
    /\ send_message(Status("started"))
    /\ tail_pc' = "run"
    /\ pos' = StartOffset
    /\ UNCHANGED <<conn, net, closeMsg>>
    /\ UNCHANGED <<running, exit_code, srv_pc, srv_ret, line_count,
                   watch_pc, readText>>
    /\ UNCHANGED envVars
    /\ UNCHANGED histVars

\* wait_for_file gives up after its timeout: FileNotFoundError, reported as
\* an error status.
TailFileTimeout ==
    /\ tail_pc = "waitfile" /\ LoopFree
    /\ ~logExists
    /\ send_message(Status("error"))
    /\ tail_pc' = "done"
    /\ UNCHANGED <<conn, net, closeMsg>>
    /\ UNCHANGED <<running, exit_code, srv_pc, srv_ret, pos, line_count,
                   watch_pc, readText>>
    /\ UNCHANGED envVars
    /\ UNCHANGED histVars

\* A reader that does not look at the stop flag.
TailIgnoresStop == TRUE

\* while self.running
TailContinues == running

\* A reader that does not look at the session.
TailNeverStops == FALSE

\* No new data: if self.client_websocket is None: break
TailStops == client_websocket = None

\* One pass of the loop of tail_log_file up to its next suspension point,
\* or the end of the loop with the completion message that follows it.
TailLoop ==
    /\ tail_pc \in {"run", "ready"}
    /\ LET line == ReadLine(logfile, pos) IN
       IF TailContinues /\ line # <<>>
       THEN /\ send_message(Output(RStrip(Decode(line))))
            /\ line_count' = line_count + 1
            /\ pos' = pos + Len(line)
            /\ last_offset' = OffsetAfter(pos)
            /\ tail_pc' = IF SendTarget # None THEN "ready" ELSE "run"
       ELSE IF TailContinues /\ ~TailStops
       THEN /\ tail_pc' = "sleep"
            /\ UNCHANGED <<sent, client_websocket, line_count, pos, last_offset>>
       ELSE /\ send_message(Completed(Some(line_count), exit_code))
            /\ tail_pc' = "done"
            /\ UNCHANGED <<line_count, pos, last_offset>>
    /\ UNCHANGED <<conn, net, closeMsg>>
    /\ UNCHANGED <<running, exit_code, srv_pc, srv_ret, watch_pc, readText>>
    /\ UNCHANGED envVars
    /\ UNCHANGED cutBelow

\* A check that never seeks.
PosNoReset == pos

\* f.tell() after the truncation check: if current_pos > file_size: f.seek(0)
PosAfterCheck == IF pos > Len(logfile) THEN 0 ELSE pos

\* asyncio.sleep(0.1) is over: the truncation check.
TailWake ==
    /\ tail_pc = "sleep" /\ LoopFree
    /\ pos' = PosAfterCheck
    /\ cutBelow' = (cutBelow /\ pos' # 0)
    /\ UNCHANGED last_offset
    /\ tail_pc' = "run"
    /\ UNCHANGED <<running, exit_code, srv_pc, srv_ret, line_count, watch_pc,
                   readText>>
    /\ UNCHANGED <<gateVars, envVars>>

\* ------------------------- LogFileWebSocketServer.watch_exit_code_file
\* The polling loop ends: the sentinel exists (or running was cleared).  The
\* task of tail_log_file was created first and has run to its first
\* suspension by the time this task runs.
WatchPoll ==
    /\ watch_pc = "poll" /\ LoopFree
    /\ tail_pc # "start"
    /\ ~running \/ sentinel # "absent"
    /\ watch_pc' = IF running THEN "beat" ELSE "done"
    /\ UNCHANGED <<running, exit_code, srv_pc, srv_ret, tail_pc, pos,
                   line_count, readText>>
    /\ UNCHANGED <<gateVars, envVars>>
    /\ UNCHANGED histVars

\* What a read of the sentinel file gave: nothing yet, its text, or IOError.
NotRead == [kind |-> "none", text |-> <<>>]
ReadOf(t) == [kind |-> "text", text |-> t]
ReadFailed == [kind |-> "ioerror", text |-> <<>>]

\* A watcher that signals stop without a result.
LineExitCodeUnresolved == None

\* A watcher that defaults to failure.
LineExitCodeOne ==
    IF sentinel = "present" /\ ParseInt(sentinelText) # None
    THEN ParseInt(sentinelText)
    ELSE Some(1)

\* The exit code the watcher resolves from what it reads: int(f.read().strip()),
\* 0 on ValueError or IOError.
LineExitCode ==
    IF sentinel = "present" /\ ParseInt(sentinelText) # None
    THEN ParseInt(sentinelText)
    ELSE Some(0)

\* After the extra sleep(0.1): read the sentinel, then self.running = False.
WatchRead ==
    /\ watch_pc = "beat" /\ LoopFree
    /\ exit_code' = LineExitCode
    /\ readText' = IF sentinel = "present" THEN ReadOf(sentinelText) ELSE ReadFailed
    /\ running' = FALSE
    /\ watch_pc' = "done"
    /\ UNCHANGED <<srv_pc, srv_ret, tail_pc, pos, line_count>>
    /\ UNCHANGED <<gateVars, envVars>>
    /\ UNCHANGED histVars

\* ------------------------------------------------------ NextflowLogServer
\* bytes read per pass of stream_logs (f.read(4096)), scaled to the model
ChunkSize == 2

NoTask == [pc |-> "none", position |-> 0]

\* f.seek(position); f.read(n)
ReadBlock(f, p, n) ==
    IF p >= Len(f) THEN <<>>
    ELSE SubSeq(f, p + 1, IF p + n < Len(f) THEN p + n ELSE Len(f))

ErrorMsg(code) == Msg("error", <<>>, code, None, None)

\* Whether a task object is done (finished or cancelled).
TaskDone(c) == task[c].pc \in {"done", "cancelled"}

\* task.cancel() on every task of cs that is not done.
Cancelled(cs) ==
    [c \in Conns |->
        IF c \in cs /\ ~TaskDone(c) /\ task[c].pc # "none"
        THEN [task[c] EXCEPT !.pc = "cancelled"]
        ELSE task[c]]

\* handle_websocket up to asyncio.wait: the busy check, the registration, the
\* 'connected' Status, and the streaming task it creates.
RawConnect(c) ==
    /\ LoopFree
    /\ conn[c] = "new"
    /\ \A d \in Conns : d < c => conn[d] # "new"
    /\ IF IsBusy
       THEN /\ conn' = [conn EXCEPT ![c] = "rejected"]
            /\ closeMsg' = [closeMsg EXCEPT ![c] = "Server busy"]
            /\ UNCHANGED <<client_websocket, sent, streaming_task, task>>
       ELSE /\ conn' = [conn EXCEPT ![c] = "admitted"]
            /\ sent' = [sent EXCEPT ![c] = Append(@, Status("connected"))]
            /\ client_websocket' = Some(c)
            /\ streaming_task' = Some(c)
            /\ task' = [task EXCEPT ![c] = [pc |-> "start", position |-> 0]]
            /\ UNCHANGED closeMsg
    /\ UNCHANGED net

\* The tasks the handler of c cancels when asyncio.wait has returned: its own
\* streaming task if that is the pending one, and in the finally block
\* whatever self.streaming_task is by then.
CancelTargets(c) ==
    {c} \cup (IF streaming_task # None THEN {streaming_task[1]} ELSE {})

\* asyncio.wait returns: the streaming task of c is done, or the message
\* loop of c has ended.  The pending task is cancelled; the finally block
\* cancels self.streaming_task.
RawHandlerDone(c) ==
    /\ LoopFree
    /\ conn[c] = "admitted"
    /\ TaskDone(c) \/ net[c] = "down"
    /\ task' = Cancelled(CancelTargets(c))
    /\ conn' = [conn EXCEPT ![c] = "closing"]
    /\ UNCHANGED <<client_websocket, net, closeMsg, sent, streaming_task>>

\* The end of the finally block: ws.close(), self.client_websocket = None.
RawHandlerClose(c) ==
    /\ LoopFree
    /\ conn[c] = "closing"
    /\ conn' = [conn EXCEPT ![c] = "closed"]
    /\ client_websocket' = GateAfterExit(c)
    /\ UNCHANGED <<net, closeMsg, sent, streaming_task, task>>

\* The transport of a connection breaks.
RawPeerBreak(c) ==
    /\ conn[c] \in {"admitted", "closing"} /\ net[c] = "up"
    /\ net' = [net EXCEPT ![c] = "down"]
    /\ UNCHANGED <<client_websocket, conn, closeMsg, sent, streaming_task, task>>

\* stream_logs starts: the log file is there, or is waited for.
StreamStart(c) ==
    /\ LoopFree
    /\ task[c].pc = "start"
    /\ task' = [task EXCEPT ![c].pc = IF logExists THEN "run" ELSE "waitlog",
                             ![c].position = StartOffset]
    /\ UNCHANGED <<exit_code, readText, streaming_task, last_offset>>
    /\ UNCHANGED gateVars

\* The wait for the log file ends: the file is found, or the 300 s are over.
StreamWaitLog(c) ==
    /\ LoopFree
    /\ task[c].pc = "waitlog"
    /\ IF logExists
       THEN /\ task' = [task EXCEPT ![c].pc = "run",
                                     ![c].position = StartOffset]
            /\ UNCHANGED <<sent, client_websocket>>
       ELSE /\ send_message(ErrorMsg("TIMEOUT"))
            /\ task' = [task EXCEPT ![c].pc = "done"]
    /\ UNCHANGED <<exit_code, readText, streaming_task, last_offset>>
    /\ UNCHANGED <<conn, net, closeMsg>>

\* self.exit_code = 1 on ValueError or IOError
RawDefault == Some(1)

\* The exit code stream_logs resolves from the sentinel it finds.
RawExitCode ==
    IF sentinel = "present" /\ ParseInt(sentinelText) # None
    THEN ParseInt(sentinelText)
    ELSE RawDefault

\* if os.path.exists(self.exit_code_file) and self.exit_code is None
\* A sentinel test without 'self.exit_code is None'.
SeesSentinelAgain == sentinel # "absent"

SeesSentinel == sentinel # "absent" /\ exit_code = None

\* One pass of the loop of stream_logs, up to its next suspension point.
StreamLoop(c) ==
    /\ \/ task[c].pc = "run"
       \/ task[c].pc \in {"ready", "sleep"} /\ LoopFree
    /\ LET code == IF SeesSentinel THEN RawExitCode ELSE exit_code
           data == ReadBlock(logfile, task[c].position, ChunkSize)
       IN  /\ exit_code' = code
           /\ readText' = IF ~SeesSentinel THEN readText
                          ELSE IF sentinel = "present" THEN ReadOf(sentinelText)
                          ELSE ReadFailed
           /\ IF data # <<>>
              THEN /\ send_message(Output(Decode(data)))
                   /\ last_offset' = OffsetAfter(task[c].position)
                   /\ task' = [task EXCEPT
                         ![c].position = @ + Len(data),
                         ![c].pc = IF SendTarget # None THEN "ready" ELSE "run"]
              ELSE IF code # None
              THEN /\ send_message(Completed(None, code))
                   /\ task' = [task EXCEPT ![c].pc = "done"]
                   /\ UNCHANGED last_offset
              ELSE /\ task' = [task EXCEPT ![c].pc = "sleep"]
                   /\ UNCHANGED <<sent, client_websocket, last_offset>>
    /\ UNCHANGED streaming_task
    /\ UNCHANGED <<conn, net, closeMsg>>

\* ------------------------------------------------------ NextflowPTYServer
\* bytes read per os.read(self.master_fd, 1024), scaled to the model
PtyChunk == 2

\* the exit codes a child can end with
ChildCodes == {0, 7}

NoProc == [st |-> "none", code |-> 0]

\* send_message for each message of ms in turn (none of them suspends).
send_all(ms) ==
    /\ sent' = IF SendTarget # None
               THEN [sent EXCEPT ![SendTarget[1]] = @ \o ms]
               ELSE sent
    /\ client_websocket' = GateAfterSend

PtyCompleted(code) == Msg("status", <<>>, "completed", Some(code), None)

\* The child writes one byte to its terminal.
ChildWrite(b, cap) ==
    /\ proc.st = "alive"
    /\ Len(childOut) < cap
    /\ ptybuf' = Append(ptybuf, b)
    /\ childOut' = Append(childOut, b)
    /\ UNCHANGED <<pty_pc, pty_ret, proc, master_fd, fd_closes, read_pc, thr,
                   inflight>>
    /\ UNCHANGED raised

\* The child exits.
ChildExit(code) ==
    /\ proc.st = "alive"
    /\ proc' = [st |-> "exited", code |-> code]
    /\ UNCHANGED <<pty_pc, pty_ret, ptybuf, childOut, master_fd, fd_closes,
                   read_pc, thr, inflight>>
    /\ UNCHANGED raised

\* The OSError pty.openpty or subprocess.Popen can raise, by errno (ENOENT,
\* EACCES).
SpawnErrors == {[errno |-> 2], [errno |-> 13]}

\* str(e) of an OSError: "[Errno n] ..."
ExcText(e) == <<"[", "E">> \o Str(e.errno) \o <<"]">>

\* An except block that tells the observer nothing.
ErrorUnreported(e) == <<>>

\* send_message("status", status="error", error=str(e)); the text is in the
\* record's data field.
ErrorReport(e) == <<Msg("status", ExcText(e), "error", None, None)>>

\* self.master_fd after the finally block: 'if self.master_fd:' closes an
\* open descriptor and sets the attribute to None.
FdAfterFinally(fd) == IF fd = "open" THEN "closed" ELSE fd

\* The os.close(self.master_fd) calls the finally block makes.
ClosesOf(fd) == IF fd = "open" THEN 1 ELSE 0

\* A finally block that leaves the child as it finds it.
LeftAsFound(p, graceful) == p

\* The child after the finally block.  One that still runs gets terminate()
\* and wait(timeout=5); it ends on the signal (return code -15) or, when the
\* wait times out, gets kill() and wait() (return code -9).  One that has
\* ended is collected by poll().
Reaped(p, graceful) ==
    IF p.st = "none" THEN p
    ELSE IF p.st = "alive"
    THEN [st |-> "reaped", code |-> IF graceful THEN -15 ELSE -9]
    ELSE [p EXCEPT !.st = "reaped"]

\* The finally block of run_nextflow, entered with self.master_fd = fd and
\* self.process = p.
RunFinally(fd, p, graceful) ==
    /\ master_fd' = FdAfterFinally(fd)
    /\ fd_closes' = fd_closes + ClosesOf(fd)
    /\ proc' = Reaped(p, graceful)

\* start_server sees a client and calls run_nextflow, which runs to its
\* first suspension: pty.openpty(), the 'starting' Status, Popen, the
\* 'started' Status, the read task, and the wait for the child.  When Popen
\* raises, the except and finally blocks run instead.
PtyAdmit(spawned) ==
    /\ pty_pc = "wait_client" /\ LoopFree
    /\ client_websocket # None
    /\ IF spawned
       THEN /\ send_all(<<Status("starting"), Status("started")>>)
            /\ proc' = [st |-> "alive", code |-> 0]
            /\ master_fd' = "open"
            /\ read_pc' = "check"
            /\ pty_pc' = "running"
            /\ UNCHANGED <<pty_ret, fd_closes, raised>>
       ELSE /\ \E e \in SpawnErrors :
                  /\ send_all(<<Status("starting")>> \o ErrorReport(e))
                  /\ raised' = Some(e)
            /\ RunFinally("open", proc, TRUE)
            /\ pty_pc' = "linger"
            /\ pty_ret' = Some(1)
            /\ UNCHANGED read_pc
    /\ UNCHANGED <<ptybuf, childOut, thr, inflight>>
    /\ UNCHANGED <<conn, net, closeMsg>>

\* pty.openpty() raises: the except and finally blocks run, with
\* self.master_fd and self.process as __init__ left them.
PtyNoTerminal ==
    /\ pty_pc = "wait_client" /\ LoopFree
    /\ client_websocket # None
    /\ \E e \in SpawnErrors :
          /\ send_all(ErrorReport(e))
          /\ raised' = Some(e)
    /\ RunFinally(master_fd, proc, TRUE)
    /\ pty_pc' = "linger"
    /\ pty_ret' = Some(1)
    /\ UNCHANGED <<ptybuf, childOut, read_pc, thr, inflight>>
    /\ UNCHANGED <<conn, net, closeMsg>>

\* while self.process and self.process.poll() is None
ReaderContinues == proc.st = "alive"

\* A wait for the child that returns at once.
WaitReturnsAtOnce == TRUE

\* The child has ended (and may have been waited for).
ChildGone == proc.st \in {"exited", "reaped"}

\* The loop condition of read_pty_output, and the read it hands to the
\* executor.  poll() collects a child that has ended.
ReadCheck ==
    /\ \/ read_pc = "run"
       \/ read_pc \in {"check", "sleep"} /\ LoopFree
    /\ IF ReaderContinues
       THEN read_pc' = "reading" /\ thr' = "reading" /\ UNCHANGED proc
       ELSE /\ read_pc' = "done"
            /\ proc' = Reaped(proc, TRUE)
            /\ UNCHANGED thr
    /\ UNCHANGED <<pty_pc, pty_ret, ptybuf, childOut, master_fd, fd_closes,
                   inflight>>
    /\ UNCHANGED gateVars
    /\ UNCHANGED raised

\* _read_pty_data in the executor thread: os.read returns what is in the
\* terminal, up to PtyChunk bytes; it blocks while there is nothing and the
\* child is alive, and gives b"" when the descriptor is gone or the child
\* has hung up.
ThreadRead ==
    /\ thr = "reading"
    /\ master_fd # "open" \/ ptybuf # <<>> \/ ChildGone
    /\ LET n == IF Len(ptybuf) < PtyChunk THEN Len(ptybuf) ELSE PtyChunk
           got == IF master_fd = "open" THEN SubSeq(ptybuf, 1, n) ELSE <<>>
       IN  /\ inflight' = got
           /\ ptybuf' = SubSeq(ptybuf, Len(got) + 1, Len(ptybuf))
    /\ thr' = "done"
    /\ UNCHANGED <<pty_pc, pty_ret, proc, childOut, master_fd, fd_closes,
                   read_pc>>
    /\ UNCHANGED gateVars
    /\ UNCHANGED raised

\* read_pty_output gets the result of the read: output is decoded and sent,
\* an empty read sleeps.
ReadResume ==
    /\ read_pc = "reading" /\ thr = "done" /\ LoopFree
    /\ IF inflight # <<>>
       THEN /\ send_message(Output(Decode(inflight)))
            /\ read_pc' = IF SendTarget # None THEN "check" ELSE "run"
       ELSE /\ read_pc' = "sleep"
            /\ UNCHANGED <<sent, client_websocket>>
    /\ thr' = "idle" /\ inflight' = <<>>
    /\ UNCHANGED <<pty_pc, pty_ret, proc, ptybuf, childOut, master_fd,
                   fd_closes>>
    /\ UNCHANGED <<conn, net, closeMsg>>
    /\ UNCHANGED raised

\* The rest of run_nextflow once the read task has been awaited: the
\* 'completed' Status, the return, and the finally block.
PtyFinish ==
    /\ send_message(PtyCompleted(proc.code))
    /\ pty_ret' = Some(proc.code)
    /\ RunFinally(master_fd, proc, TRUE)
    /\ pty_pc' = "linger"

\* process.wait() has returned: read_task.cancel() and await read_task.  A
\* read task that is done is awaited without suspending.
PtyWaitDone ==
    /\ pty_pc = "running" /\ LoopFree /\ read_pc # "run"
    /\ ChildGone
    /\ IF read_pc = "done"
       THEN PtyFinish /\ UNCHANGED read_pc
       ELSE /\ read_pc' = "cancelled"
            /\ pty_pc' = "cancelling"
            /\ proc' = Reaped(proc, TRUE)
            /\ UNCHANGED <<pty_ret, master_fd, fd_closes, sent,
                           client_websocket>>
    /\ UNCHANGED <<ptybuf, childOut, thr, inflight>>
    /\ UNCHANGED <<conn, net, closeMsg>>
    /\ UNCHANGED raised

\* The cancelled read task has ended.
PtyComplete ==
    /\ pty_pc = "cancelling" /\ LoopFree
    /\ PtyFinish
    /\ UNCHANGED <<ptybuf, childOut, read_pc, thr, inflight>>
    /\ UNCHANGED <<conn, net, closeMsg>>
    /\ UNCHANGED raised

\* The task of start_server is cancelled (asyncio.run on KeyboardInterrupt)
\* while run_nextflow waits for the child: CancelledError passes the except
\* block, the finally blocks of run_nextflow and start_server run, and the
\* tasks left are cancelled.
PtyCancel ==
    /\ pty_pc = "running" /\ LoopFree
    /\ \E graceful \in BOOLEAN : RunFinally(master_fd, proc, graceful)
    /\ pty_pc' = "done"
    /\ read_pc' = IF read_pc \in {"idle", "done"} THEN read_pc ELSE "cancelled"
    /\ conn' = [c \in Conns |->
                  IF conn[c] = "admitted" THEN "closed" ELSE conn[c]]
    /\ client_websocket' = None
    /\ UNCHANGED <<net, closeMsg, sent>>
    /\ UNCHANGED <<pty_ret, ptybuf, childOut, thr, inflight>>
    /\ UNCHANGED raised

\* start_server returns after its sleep(2); runner.cleanup() in its finally
\* block ends every connection handler.
PtyReturn ==
    /\ pty_pc = "linger" /\ LoopFree
    /\ pty_pc' = "done"
    /\ conn' = [c \in Conns |->
                  IF conn[c] = "admitted" THEN "closed" ELSE conn[c]]
    /\ client_websocket' = None
    /\ UNCHANGED <<net, closeMsg, sent>>
    /\ UNCHANGED <<pty_ret, proc, ptybuf, childOut, master_fd, fd_closes,
                   read_pc, thr, inflight>>
    /\ UNCHANGED raised

\* ------------------------------------- nextflow_runner.py, pty_wrapper.py
\* The status a process that calls sys.exit(n) ends with: the low eight bits.
ExitStatus(n) == n % 256

\* What the tools leave alone: the relays.
toolFrame == <<server, gateVars, histVars, lineVars, rawVars, nTruncs,
               pty_pc, pty_ret, childOut, raised, read_pc, thr, inflight>>

\* The first n bytes of the terminal's buffer, all of them if there are fewer.
Upto(n) == SubSeq(ptybuf, 1, IF Len(ptybuf) < n THEN Len(ptybuf) ELSE n)

\* The terminal's buffer without its first k bytes.
Rest(k) == SubSeq(ptybuf, k + 1, Len(ptybuf))

\* run_with_pty up to its loop: pty.openpty(), open(output_file, 'wb'),
\* Popen.
RunStart ==
    /\ tool_pc = "start"
    /\ master_fd' = "open"
    /\ logExists' = TRUE /\ logfile' = <<>>
    /\ out_f' = "open"
    /\ proc' = [st |-> "alive", code |-> 0]
    /\ tool_pc' = "loop"
    /\ UNCHANGED <<nWritten, sentinel, sentinelText, ptybuf, fd_closes,
                   tool_code, tool_exit>>
    /\ UNCHANGED toolFrame

\* One pass of the loop of run_with_pty in which something happens: a block
\* is read, written and flushed; when process.poll() then shows the command
\* ended, what is left in the terminal is read and written too and the loop
\* is left.  With nothing to read from a terminal whose command has ended,
\* os.read raises OSError and the loop is left.
RunLoop ==
    /\ tool_pc = "loop"
    /\ ptybuf # <<>> \/ ChildGone
    /\ LET data == IF ChildGone THEN ptybuf ELSE Upto(PtyChunk) IN
       /\ logfile' = logfile \o data
       /\ nWritten' = nWritten + Len(data)
       /\ ptybuf' = Rest(Len(data))
    /\ tool_pc' = IF ChildGone THEN "wait" ELSE "loop"
    /\ UNCHANGED <<logExists, sentinel, sentinelText, proc, master_fd,
                   fd_closes, out_f, tool_code, tool_exit>>
    /\ UNCHANGED toolFrame

\* KeyboardInterrupt in the loop: process.terminate() and break.  The
\* command ends on the signal, or goes on if it ignores it.
RunInterrupt ==
    /\ tool_pc = "loop"
    /\ \E obeys \in BOOLEAN :
          proc' = IF proc.st = "alive" /\ obeys
                  THEN [st |-> "exited", code |-> -15] ELSE proc
    /\ tool_pc' = "wait"
    /\ UNCHANGED <<envVars, ptybuf, master_fd, fd_closes, out_f, tool_code,
                   tool_exit>>
    /\ UNCHANGED <<server, gateVars, histVars, lineVars, rawVars,
                   pty_pc, pty_ret, childOut, raised, read_pc, thr, inflight>>

\* exit_code = process.wait(); the with block closes the output file, the
\* finally block closes the master descriptor, run_with_pty returns.
RunWait ==
    /\ tool_pc = "wait"
    /\ ChildGone
    /\ proc' = [proc EXCEPT !.st = "reaped"]
    /\ tool_code' = Some(proc.code)
    /\ out_f' = "closed"
    /\ master_fd' = "closed" /\ fd_closes' = fd_closes + 1
    /\ tool_pc' = "returned"
    /\ UNCHANGED <<envVars, ptybuf, tool_exit>>
    /\ UNCHANGED <<server, gateVars, histVars, lineVars, rawVars,
                   pty_pc, pty_ret, childOut, raised, read_pc, thr, inflight>>

\* open(exit_code_file, 'w') in main: the sentinel exists, empty.
RunOpenSentinel ==
    /\ tool_pc = "returned"
    /\ sentinel' = "present" /\ sentinelText' = <<>>
    /\ tool_pc' = "writing"
    /\ UNCHANGED <<logfile, logExists, nWritten, proc, ptybuf, master_fd,
                   fd_closes, out_f, tool_code, tool_exit>>
    /\ UNCHANGED toolFrame

\* f.write(str(exit_code)) and the end of the with block.
RunWriteSentinel ==
    /\ tool_pc = "writing"
    /\ sentinelText' = Str(tool_code[1])
    /\ tool_pc' = "written"
    /\ UNCHANGED <<logfile, logExists, nWritten, sentinel, proc, ptybuf,
                   master_fd, fd_closes, out_f, tool_code, tool_exit>>
    /\ UNCHANGED toolFrame

\* sys.exit(exit_code)
RunExit ==
    /\ tool_pc = "written"
    /\ tool_exit' = Some(ExitStatus(tool_code[1]))
    /\ tool_pc' = "done"
    /\ UNCHANGED <<envVars, proc, ptybuf, master_fd, fd_closes, out_f,
                   tool_code>>
    /\ UNCHANGED <<server, gateVars, histVars, lineVars, rawVars,
                   pty_pc, pty_ret, childOut, raised, read_pc, thr, inflight>>

\* ------------------------------------------------------------ pty_wrapper
\* The status os.waitpid gives for a child: the exit code in the high byte,
\* or the number of the signal that ended it in the low byte.
WaitStatus(p) == IF p.code >= 0 THEN p.code * 256 ELSE -p.code

\* The value main returns when open() of the output file raises e.
OpenFailure(e) == IF e.errno = 2 THEN 127 ELSE 126

\* main up to the copy loop of pty.spawn: the output file is opened
\* (--binary) and the command is forked on a new terminal.
WrapSpawn ==
    /\ tool_pc = "start"
    /\ master_fd' = "open"
    /\ logExists' = TRUE /\ logfile' = <<>>
    /\ out_f' = "open"
    /\ proc' = [st |-> "alive", code |-> 0]
    /\ tool_pc' = "copy"
    /\ UNCHANGED <<nWritten, sentinel, sentinelText, ptybuf, fd_closes,
                   tool_code, tool_exit>>
    /\ UNCHANGED toolFrame

\* open() of the output file raises FileNotFoundError or PermissionError:
\* main returns 127 or 126.
WrapOpenFails ==
    /\ tool_pc = "start"
    /\ \E e \in SpawnErrors : tool_code' = Some(OpenFailure(e))
    /\ tool_pc' = "returned"
    /\ UNCHANGED <<envVars, proc, ptybuf, master_fd, fd_closes, out_f,
                   tool_exit>>
    /\ UNCHANGED <<server, gateVars, histVars, lineVars, rawVars,
                   pty_pc, pty_ret, childOut, raised, read_pc, thr, inflight>>

\* read_and_write: a block of the command's output is read, written to the
\* output file and flushed.
WrapCopy ==
    /\ tool_pc = "copy"
    /\ ptybuf # <<>>
    /\ LET data == Upto(ChunkSize) IN
       /\ logfile' = logfile \o data
       /\ nWritten' = nWritten + Len(data)
       /\ ptybuf' = Rest(Len(data))
    /\ UNCHANGED <<logExists, sentinel, sentinelText, proc, master_fd,
                   fd_closes, tool_pc, out_f, tool_code, tool_exit>>
    /\ UNCHANGED toolFrame

\* The command has ended and its output is read: read_and_write returns
\* b'', pty.spawn closes the master descriptor and returns
\* os.waitpid(pid, 0)[1]; the with block closes the file and main returns
\* that value.
WrapWait ==
    /\ tool_pc = "copy"
    /\ ptybuf = <<>> /\ ChildGone
    /\ proc' = [proc EXCEPT !.st = "reaped"]
    /\ tool_code' = Some(WaitStatus(proc))
    /\ out_f' = "closed"
    /\ master_fd' = "closed" /\ fd_closes' = fd_closes + 1
    /\ tool_pc' = "returned"
    /\ UNCHANGED <<envVars, ptybuf, tool_exit>>
    /\ UNCHANGED <<server, gateVars, histVars, lineVars, rawVars,
                   pty_pc, pty_ret, childOut, raised, read_pc, thr, inflight>>

\* sys.exit(main())
WrapExit ==
    /\ tool_pc = "returned"
    /\ tool_exit' = Some(ExitStatus(tool_code[1]))
    /\ tool_pc' = "done"
    /\ UNCHANGED <<envVars, proc, ptybuf, master_fd, fd_closes, out_f,
                   tool_code>>
    /\ UNCHANGED <<server, gateVars, histVars, lineVars, rawVars,
                   pty_pc, pty_ret, childOut, raised, read_pc, thr, inflight>>

\* ---------------------------------------------------------- specifications
InitGate ==
    /\ client_websocket = None
    /\ conn = [c \in Conns |-> "new"]
    /\ net = [c \in Conns |-> "up"]
    /\ closeMsg = [c \in Conns |-> ""]
    /\ sent = [c \in Conns |-> <<>>]

InitEnv ==
    /\ logfile = <<>> /\ logExists \in BOOLEAN
    /\ nWritten = 0 /\ nTruncs = 0
    /\ sentinel = "absent" /\ sentinelText = <<>>
    /\ cutBelow = FALSE
    /\ last_offset = [c \in Conns |-> -1]

\* LogFileWebSocketServer after __init__ and start_server up to
\* self.running = True.
InitLineVars ==
    /\ running = TRUE /\ exit_code = None
    /\ srv_pc = "wait_client" /\ srv_ret = None
    /\ tail_pc = "idle" /\ pos = 0 /\ line_count = 0
    /\ watch_pc = "idle" /\ readText = NotRead

\* NextflowLogServer after __init__.
InitRawVars ==
    /\ streaming_task = None
    /\ task = [c \in Conns |-> NoTask]

\* NextflowPTYServer after __init__, waiting for a client in start_server.
InitPtyVars ==
    /\ pty_pc = "wait_client" /\ pty_ret = None
    /\ proc = NoProc /\ ptybuf = <<>> /\ childOut = <<>>
    /\ master_fd = "none" /\ fd_closes = 0 /\ raised = None
    /\ read_pc = "idle" /\ thr = "idle" /\ inflight = <<>>

\* nextflow_runner.py or pty_wrapper.py at the start of main.
InitToolVars ==
    /\ tool_pc = "start" /\ out_f = "none"
    /\ tool_code = None /\ tool_exit = None

InitLine ==
    /\ server = "line"
    /\ InitGate /\ InitEnv /\ InitLineVars /\ InitRawVars /\ InitPtyVars
    /\ InitToolVars

GateStep(n) ==
    /\ server \in {"line", "pty"}
    /\ \E c \in 1..n : Connect(c) \/ HandlerExit(c) \/ PeerBreak(c)
    /\ UNCHANGED <<server, envVars, histVars, lineVars, rawVars, ptyVars, toolVars>>

\* The producer: it writes up to cap bytes, then creates the sentinel.
ProducerStep(alphabet, cap) ==
    /\ server \in {"line", "raw"}
    /\ \/ CreateLog
       \/ \E b \in alphabet : AppendLog(b, cap)
       \/ OpenSentinel
    /\ UNCHANGED <<server, gateVars, histVars, lineVars, rawVars, ptyVars, toolVars>>

\* The writer of the sentinel leaves one of texts in it.
SentinelStep(texts) ==
    /\ server \in {"line", "raw"}
    /\ \E t \in texts : FillSentinel(t)
    /\ UNCHANGED <<server, gateVars, histVars, lineVars, rawVars, ptyVars, toolVars>>

BadSentinelStep ==
    /\ server \in {"line", "raw"}
    /\ UnreadableSentinel
    /\ UNCHANGED <<server, gateVars, histVars, lineVars, rawVars, ptyVars, toolVars>>

TruncStep ==
    /\ server \in {"line", "raw"}
    /\ \E k \in 0..MaxFile : Truncate(k)
    /\ UNCHANGED <<server, gateVars, lineVars, rawVars, ptyVars, toolVars>>

LineStep ==
    /\ server = "line"
    /\ \/ SrvAdmit \/ SrvGather \/ SrvReturn
       \/ TailStart \/ TailFileFound \/ TailFileTimeout \/ TailLoop \/ TailWake
       \/ WatchPoll \/ WatchRead
    /\ UNCHANGED <<server, rawVars, ptyVars, toolVars>>

InitRaw ==
    /\ server = "raw"
    /\ InitGate /\ InitEnv /\ InitLineVars /\ InitRawVars /\ InitPtyVars
    /\ InitToolVars

RawGateStep(n) ==
    /\ server = "raw"
    /\ \E c \in 1..n :
          RawConnect(c) \/ RawHandlerDone(c) \/ RawHandlerClose(c) \/ RawPeerBreak(c)
    /\ UNCHANGED <<server, envVars, histVars, lineVars, ptyVars, toolVars>>

RawStep ==
    /\ server = "raw"
    /\ \E c \in Conns : StreamStart(c) \/ StreamWaitLog(c) \/ StreamLoop(c)
    /\ UNCHANGED <<server, envVars, cutBelow, lineOnly, ptyVars, toolVars>>

InitPty ==
    /\ server = "pty"
    /\ InitGate /\ InitEnv /\ InitLineVars /\ InitRawVars /\ InitPtyVars
    /\ InitToolVars
    /\ ~logExists

ChildStep(alphabet, cap) ==
    /\ server = "pty"
    /\ \/ \E b \in alphabet : ChildWrite(b, cap)
       \/ \E code \in ChildCodes : ChildExit(code)
    /\ UNCHANGED <<server, gateVars, envVars, histVars, lineVars, rawVars, toolVars>>

PtyStep ==
    /\ server = "pty"
    /\ \/ \E spawned \in BOOLEAN : PtyAdmit(spawned)
       \/ PtyNoTerminal
       \/ ReadCheck \/ ThreadRead \/ ReadResume
       \/ PtyWaitDone \/ PtyComplete \/ PtyCancel \/ PtyReturn
    /\ UNCHANGED <<server, envVars, histVars, lineVars, rawVars, toolVars>>

LineBytes == {"a", "NL"}

\* The line relay, its observers and the producer.
NextLine ==
    \/ GateStep(MaxConns)
    \/ ProducerStep(LineBytes, MaxFile)
    \/ SentinelStep({Str(7)})
    \/ LineStep

SpecLine == InitLine /\ [][NextLine]_vars

\* The line relay with every kind of sentinel contents.
NextLineExit ==
    \/ GateStep(MaxConns)
    \/ ProducerStep(LineBytes, FewBytes)
    \/ SentinelStep(SentinelTexts)
    \/ BadSentinelStep
    \/ LineStep

SpecLineExit == InitLine /\ [][NextLineExit]_vars

\* The line relay with a log file that is rotated.
NextLineTrunc ==
    \/ GateStep(FewConns)
    \/ ProducerStep(LineBytes, MaxFile)
    \/ SentinelStep({Str(7)})
    \/ TruncStep
    \/ LineStep

SpecLineTrunc == InitLine /\ [][NextLineTrunc]_vars

RawBytes == {"a", "L", "T"}

\* The raw relay, its observers and the producer.
NextRaw ==
    \/ RawGateStep(MaxConns)
    \/ ProducerStep(RawBytes, FewBytes)
    \/ SentinelStep({Str(7)})
    \/ RawStep

SpecRaw == InitRaw /\ [][NextRaw]_vars

\* The raw relay and what it forwards of the file.
NextRawData ==
    \/ RawGateStep(FewConns)
    \/ ProducerStep(RawBytes, MaxFile)
    \/ SentinelStep({Str(7)})
    \/ RawStep

SpecRawData == InitRaw /\ [][NextRawData]_vars

\* The raw relay with every kind of sentinel contents.
NextRawExit ==
    \/ RawGateStep(FewConns)
    \/ ProducerStep(RawBytes, FewBytes)
    \/ SentinelStep(SentinelTexts)
    \/ BadSentinelStep
    \/ RawStep

SpecRawExit == InitRaw /\ [][NextRawExit]_vars

PtyBytes == {"a", "L", "T"}

\* The PTY relay, its observers and the child.
NextPty ==
    \/ GateStep(MaxConns)
    \/ ChildStep(PtyBytes, MaxFile)
    \/ PtyStep

SpecPty == InitPty /\ [][NextPty]_vars

\* The three servers' admission of observers.
InitGateAll == InitLine \/ InitRaw \/ InitPty

GateBytes == {"a"}

NextGate ==
    \/ GateStep(MaxConns)
    \/ RawGateStep(MaxConns)
    \/ ProducerStep(GateBytes, FewBytes)
    \/ SentinelStep({Str(7)})
    \/ ChildStep(GateBytes, FewBytes)
    \/ LineStep
    \/ RawStep
    \/ PtyStep

SpecGate == InitGateAll /\ [][NextGate]_vars

\* The two file-tail relays with every kind of sentinel contents.
InitExit == InitLine \/ InitRaw

NextExit ==
    \/ GateStep(FewConns)
    \/ RawGateStep(FewConns)
    \/ ProducerStep(LineBytes, FewBytes)
    \/ SentinelStep(SentinelTexts)
    \/ BadSentinelStep
    \/ LineStep
    \/ RawStep

SpecExit == InitExit /\ [][NextExit]_vars

\* The line relay under a fair event loop: a task of the relay that can run
\* does run.  Nothing obliges the producer to write or to create the
\* sentinel, nor an observer to connect or to leave.
NextLineFair ==
    \/ GateStep(FewConns)
    \/ ProducerStep(LineBytes, FewBytes)
    \/ SentinelStep({Str(7)})
    \/ LineStep

SpecLineFair == InitLine /\ [][NextLineFair]_vars /\ WF_vars(LineStep)

\* The raw relay with successive observers and a file of several blocks.
NextRawOrder ==
    \/ RawGateStep(MaxConns)
    \/ ProducerStep(GateBytes, MaxFile)
    \/ SentinelStep({Str(7)})
    \/ RawStep

SpecRawOrder == InitRaw /\ [][NextRawOrder]_vars

\* The command a tool runs: it writes to its terminal and ends with one of
\* codes (negative: ended by that signal).
CommandStep(alphabet, cap, codes) ==
    /\ server \in {"runner", "wrapper", "line", "raw"}
    /\ \/ \E b \in alphabet : ChildWrite(b, cap)
       \/ \E code \in codes : ChildExit(code)
    /\ UNCHANGED <<server, gateVars, envVars, histVars, lineVars, rawVars, toolVars>>

RunnerStep ==
    /\ server \in {"runner", "line", "raw"}
    /\ \/ RunStart \/ RunLoop \/ RunInterrupt \/ RunWait
       \/ RunOpenSentinel \/ RunWriteSentinel \/ RunExit

InitRunner ==
    /\ server = "runner"
    /\ InitGate /\ InitEnv /\ InitLineVars /\ InitRawVars /\ InitPtyVars
    /\ InitToolVars

\* nextflow_runner.py and its command.
NextRunner ==
    \/ CommandStep(GateBytes, MaxFile, ExitCodes)
    \/ RunnerStep

SpecRunner == InitRunner /\ [][NextRunner]_vars

WrapperStep ==
    /\ server = "wrapper"
    /\ WrapSpawn \/ WrapOpenFails \/ WrapCopy \/ WrapWait \/ WrapExit

InitWrapper ==
    /\ server = "wrapper"
    /\ InitGate /\ InitEnv /\ InitLineVars /\ InitRawVars /\ InitPtyVars
    /\ InitToolVars

\* every exit code a command can end with
AllCodes == 0..255

\* pty_wrapper.py and its command.
NextWrapper ==
    \/ CommandStep(GateBytes, FewBytes, AllCodes)
    \/ WrapperStep

SpecWrapper == InitWrapper /\ [][NextWrapper]_vars

\* The two file-tail relays with one observer and a file of several lines.
NextTail ==
    \/ GateStep(FewConns)
    \/ RawGateStep(FewConns)
    \/ ProducerStep(LineBytes, MaxFile)
    \/ SentinelStep({Str(7)})
    \/ LineStep
    \/ RawStep

SpecTail == InitExit /\ [][NextTail]_vars

\* The line relay under the scheduling of the asyncio event loop, which runs
\* in turn every task that is ready: start_server, tail_log_file and
\* watch_exit_code_file each take their next step however often the others
\* hold the loop in between.
SpecLineTasks ==
    /\ InitLine /\ [][NextLineFair]_vars
    /\ SF_vars(LineStep /\ (SrvAdmit \/ SrvGather \/ SrvReturn))
    /\ SF_vars(LineStep /\ (TailStart \/ TailFileFound \/ TailFileTimeout
                               \/ TailLoop \/ TailWake))
    /\ SF_vars(LineStep /\ (WatchPoll \/ WatchRead))

\* The raw relay with a log file that is rotated.
NextRawTrunc ==
    \/ RawGateStep(FewConns)
    \/ ProducerStep(GateBytes, MaxFile)
    \/ SentinelStep({Str(7)})
    \/ TruncStep
    \/ RawStep

SpecRawTrunc == InitRaw /\ [][NextRawTrunc]_vars

\* nextflow_runner.py with its command, and a file-tail relay that reads the
\* output file and the sentinel the runner writes.
NextPipeline ==
    \/ GateStep(FewConns)
    \/ RawGateStep(FewConns)
    \/ CommandStep(GateBytes, FewBytes, ExitCodes)
    \/ RunnerStep
    \/ LineStep
    \/ RawStep

SpecPipeline == InitExit /\ [][NextPipeline]_vars

\* ================================================================ claims
StatusAt(q, st) == {i \in 1..Len(q) : q[i].type = "status" /\ q[i].status = st}
HasStatus(q, st) == StatusAt(q, st) # {}

\* The payloads of the Output messages of q, concatenated.
RECURSIVE OutputText(_)
OutputText(q) ==
    IF q = <<>> THEN <<>>
    ELSE (IF q[1].type = "output" THEN q[1].data ELSE <<>>) \o OutputText(Tail(q))

IsNotNL(ch) == ch # "NL"

\* C1: a connection that arrives while client_websocket is set is closed
\* with 'Server busy' and leaves client_websocket, streaming_task and the
\* streaming tasks as they are; a rejected connection stays rejected.
C1_BusyIsRejected ==
    [][\A c \in Conns :
         /\ (conn[c] = "new" /\ conn'[c] # "new" /\ client_websocket # None)
            => /\ conn'[c] = "rejected"
               /\ closeMsg'[c] = "Server busy"
               /\ client_websocket' = client_websocket
               /\ streaming_task' = streaming_task
               /\ task' = task
         /\ conn[c] = "rejected"
            => (conn'[c] = "rejected" /\ client_websocket' # Some(c))]_vars

\* A connection was turned away by each of the three servers while another
\* was admitted.
C1_WitnessOn(srv) ==
    /\ server = srv
    /\ \E c, d \in Conns :
          /\ conn[c] = "rejected" /\ closeMsg[c] = "Server busy"
          /\ conn[d] = "admitted" /\ client_websocket = Some(d)

C1_Witness == C1_WitnessOn("raw") /\ streaming_task = client_websocket
C1_WitnessLine == C1_WitnessOn("line")
C1_WitnessPty == C1_WitnessOn("pty")

\* C2: at most one connection handler is between its busy check and its
\* return at any time.
C2_OneHandlerServiced ==
    Cardinality({c \in Conns : conn[c] \in {"admitted", "closing"}}) <= 1

\* An observer whose session was admitted and whose transport never failed.
StaysConnected(c) ==
    conn[c] \in {"admitted", "closing", "closed"} /\ net[c] = "up"

\* C3: in NextflowLogServer, an observer that stays connected has, when the
\* 'completed' Status is sent, received Output chunks whose concatenation is
\* the contents of the (append-only) log file.
C3_RawOutputEqualsFile ==
    \A c \in Conns :
        (server = "raw" /\ StaysConnected(c) /\ HasStatus(sent[c], "completed"))
        => OutputText(sent[c]) = Decode(logfile)

\* C4: an observer connected from the start of the stream to the 'completed'
\* Status has by then received every line of the log file (the file is
\* complete when the sentinel is created).
C4_CompletedAfterAllLines ==
    \A c \in Conns :
        (HasStatus(sent[c], "started") /\ HasStatus(sent[c], "completed"))
        => OutputText(sent[c]) = SelectSeq(Decode(logfile), IsNotNL)

\* The exit codes carried by the 'completed' Status messages of q.
CompletedCodes(q) == {q[i].exit_code : i \in StatusAt(q, "completed")}

C5_WitnessRaw ==
    /\ server = "raw"
    /\ readText = ReadOf(Str(12))
    /\ \E c \in Conns : CompletedCodes(sent[c]) = {Some(12)}

C6_WitnessUnreadable ==
    /\ server = "line"
    /\ readText.kind = "ioerror"
    /\ \E c \in Conns : CompletedCodes(sent[c]) = {Some(0)}

\* C7: in NextflowLogServer a sentinel that does not hold an integer, or
\* cannot be read, resolves to exit code 0, and every 'completed' Status
\* delivered carries 0.
C7_RawBadSentinelIsZero ==
    (server = "raw" /\
     (readText.kind = "ioerror" \/
      (readText.kind = "text" /\ ParseInt(readText.text) = None)))
    => /\ exit_code = Some(0)
       /\ \A c \in Conns : CompletedCodes(sent[c]) \subseteq {Some(0)}

\* C8 as claimed: once the log file has been cut below the reader's cursor,
\* the reader's next truncation check resets the cursor to 0.
C8_TruncationAlwaysResets ==
    [][(tail_pc = "sleep" /\ tail_pc' = "run" /\ cutBelow) => pos' = 0]_vars

\* C8 as amended: the truncation check resets the cursor to 0 exactly when it
\* finds the cursor beyond the end of the file, after which the cursor is
\* within the file; the cursor is never negative and the reader only ever
\* ends by leaving its loop.
C8_ResetWhenBeyondEnd ==
    /\ [](pos >= 0 /\ tail_pc \in {"idle", "start", "waitfile", "ready", "run",
                                  "sleep", "done"})
    /\ [][(tail_pc = "sleep" /\ tail_pc' = "run")
          => /\ pos > Len(logfile) => pos' = 0
             /\ pos <= Len(logfile) => pos' = pos
             /\ pos' <= Len(logfile)]_vars

\* The reader had read a line, the file was cut below its cursor, and the
\* check has put the cursor back to 0.
C8_Witness ==
    /\ nTruncs > 0 /\ line_count > 0
    /\ tail_pc = "run" /\ pos = 0 /\ ~cutBelow
    /\ Len(logfile) > 0

\* C9: in NextflowPTYServer, an observer connected from the start of the run
\* to the 'completed' Status has by then received Output messages whose
\* concatenation is everything the child wrote to its terminal.
C9_PtyOutputEqualsChildOutput ==
    \A c \in Conns :
        (server = "pty" /\ StaysConnected(c)
         /\ HasStatus(sent[c], "started") /\ HasStatus(sent[c], "completed"))
        => OutputText(sent[c]) = Decode(childOut)

\* An observer that was streamed to and whose handler has returned.
Disconnected(c) == conn[c] = "closed" /\ sent[c] # <<>>

\* C10 as claimed: once an observer has disconnected mid-stream the reader
\* does not start another polling sleep, and nothing more is written to the
\* closed session.
C10_StopsAfterDisconnect ==
    [][/\ (tail_pc # "sleep" /\ tail_pc' = "sleep")
          => ~(\E c \in Conns : Disconnected(c))
       /\ \A c \in Conns : conn[c] = "closed" => sent'[c] = sent[c]]_vars

\* C10 as amended: the reader starts a polling sleep only while a session is
\* admitted; a pass of its loop made with no session admitted never
\* suspends, so the reader reads on to the end of the data and stops before
\* any other task runs; nothing more is written to a closed session.
C10_StopsWhenIdle ==
    [][/\ (tail_pc # "sleep" /\ tail_pc' = "sleep") => client_websocket # None
       /\ (tail_pc \in {"ready", "run"} /\ tail_pc' # tail_pc
           /\ client_websocket = None) => tail_pc' \in {"run", "done"}
       /\ (tail_pc = "run" /\ client_websocket = None)
           => (client_websocket' = None /\ tail_pc' \in {"run", "done"})
       /\ \A c \in Conns : conn[c] = "closed" => sent'[c] = sent[c]]_vars

\* The observer has disconnected with unread data in the file and the reader
\* has stopped.
C10_Witness ==
    /\ \E c \in Conns : Disconnected(c) /\ ~HasStatus(sent[c], "completed")
    /\ client_websocket = None
    /\ tail_pc = "done" /\ running
    /\ line_count > Cardinality({c \in Conns : HasStatus(sent[c], "started")})

\* tail_log_file has read the whole log file.
AllRead == tail_pc \in {"sleep", "done"} /\ pos = Len(logfile)

\* C11: in LogFileWebSocketServer, once the whole log file has been read,
\* the run ends with start_server returning 0, unless the file grows again
\* or the sentinel file is created.
C11_CompletesWithoutSentinel ==
    AllRead ~> \/ pos < Len(logfile)
               \/ sentinel # "absent"
               \/ (srv_pc = "done" /\ srv_ret = Some(0))

\* C12: in LogFileWebSocketServer, when the wait for the log file has timed
\* out and the observer has been told of the error, start_server returns 1.
C12_LogTimeoutIsFatal ==
    \A c \in Conns :
        (server = "line" /\ HasStatus(sent[c], "error") /\ srv_pc = "done")
        => srv_ret = Some(1)

\* The send of this step is written to a connection whose transport is down.
SendWillFail ==
    client_websocket # None /\ net[client_websocket[1]] = "down"

\* This step sends an Output message: a reader hands on what it has read.
OutputSent ==
    \/ line_count' = line_count + 1
    \/ \E c \in Conns : task'[c].position > task[c].position
    \/ (read_pc = "reading" /\ read_pc' \in {"check", "run"})

\* C13: a send that fails while a session is admitted clears
\* client_websocket at once and delivers nothing; the reader that sent goes
\* on with its loop, and the run (running, start_server, the wait for the
\* child, the child) is left as it is.
C13_SendFailureIsDisconnect ==
    [][(SendWillFail /\ OutputSent)
       => /\ client_websocket' = None
          /\ sent' = sent
          /\ line_count' = line_count + 1 => tail_pc' = "run"
          /\ \A c \in Conns :
                task'[c].position > task[c].position => task'[c].pc = "run"
          /\ read_pc = "reading" => read_pc' = "run"
          /\ running' = running
          /\ srv_pc' = srv_pc /\ pty_pc' = pty_pc /\ proc' = proc
          /\ conn' = conn]_vars

\* A send of the PTY reader has failed: the handle is cleared while the
\* handler of the lost observer has not returned, and the reader, the wait
\* for the child and the child are still running.
C13_Witness ==
    /\ server = "pty"
    /\ client_websocket = None
    /\ \E c \in Conns : conn[c] = "admitted" /\ net[c] = "down"
    /\ read_pc = "run" /\ pty_pc = "running" /\ proc.st = "alive"

C13_WitnessLine ==
    /\ server = "line"
    /\ client_websocket = None
    /\ \E c \in Conns : conn[c] = "admitted" /\ net[c] = "down"
    /\ tail_pc = "run" /\ line_count > 0 /\ running

C13_WitnessRaw ==
    /\ server = "raw"
    /\ client_websocket = None
    /\ \E c \in Conns :
          /\ conn[c] = "admitted" /\ net[c] = "down"
          /\ task[c].pc = "run" /\ task[c].position > 0

\* A step in which a reader or a run sends its closing Status message.
StatusSent ==
    \/ tail_pc # "done" /\ tail_pc' = "done"
    \/ \E c \in Conns : task[c].pc # "done" /\ task'[c].pc = "done"
    \/ pty_pc \in {"running", "cancelling"} /\ pty_pc' = "linger"

OutputCount(q) == Cardinality({i \in 1..Len(q) : q[i].type = "output"})

\* C14: a send_message made while no session is admitted is a no-op. In every
\* step in which a reader sends an Output or a closing Status while the gate
\* is Idle, no connection receives anything, the gate stays Idle, the
\* connections are left as they are, the reader's cursor is where the read
\* alone put it, and the exit status is not changed by the send (in the raw
\* relay the sentinel test of the same loop pass may resolve it).
C14_IdleSendIsNoOp ==
    [][(client_websocket = None /\ (OutputSent \/ StatusSent))
       => /\ sent' = sent
          /\ client_websocket' = None
          /\ conn' = conn /\ net' = net /\ closeMsg' = closeMsg
          /\ line_count' = line_count + 1
                => pos' = pos + Len(ReadLine(logfile, pos))
          /\ \A c \in Conns :
                task'[c].position > task[c].position
                => task'[c].position = task[c].position
                     + Len(ReadBlock(logfile, task[c].position, ChunkSize))
          /\ server # "raw" => exit_code' = exit_code
          /\ srv_ret' = srv_ret]_vars

\* One connection was ever admitted and it received neither the line nor
\* 'completed': one send at most failed on it, the other was made at Idle.
C14_Witness ==
    /\ server = "line"
    /\ client_websocket = None
    /\ line_count = 1 /\ tail_pc = "done"
    /\ Cardinality({c \in Conns : conn[c] # "new"}) = 1
    /\ \A c \in Conns :
          OutputCount(sent[c]) = 0 /\ ~HasStatus(sent[c], "completed")

\* The PTY run has sent 'completed' with no session admitted.
C14_WitnessPty ==
    /\ server = "pty"
    /\ client_websocket = None
    /\ pty_pc = "linger" /\ proc.st = "reaped"
    /\ \A c \in Conns : ~HasStatus(sent[c], "completed")

\* An Output message is written to connection c in this step.
OutputDelivered(c) ==
    /\ Len(sent'[c]) = Len(sent[c]) + 1
    /\ sent'[c][Len(sent'[c])].type = "output"

\* C15: in the file-tail relays the Output messages written to one
\* connection carry the file's data in strictly increasing offset order:
\* every chunk written to a connection was read at a higher offset than the
\* chunk written to it before, so none comes early and none comes twice.
C15_OffsetsIncrease ==
    [][\A c \in Conns :
          (server \in {"line", "raw"} /\ OutputDelivered(c))
          => last_offset'[c] > last_offset[c]]_vars

\* C16: the exit status is latched. Once exit_code is set no step changes it,
\* whatever the sentinel holds later and whoever connects; and the watcher
\* signals stop once: running never becomes true again and the watcher, once
\* it has finished, stays finished.
C16_ExitCodeIsLatched ==
    [][/\ exit_code # None => exit_code' = exit_code
       /\ ~running => ~running'
       /\ watch_pc = "done" => watch_pc' = "done"]_vars

\* The raw relay resolved the exit code from a sentinel that was still
\* empty, the sentinel now holds another code, and two successive observers
\* were both told the code resolved first.
C16_Witness ==
    /\ server = "raw"
    /\ exit_code = Some(1)
    /\ ParseInt(sentinelText) = Some(7)
    /\ \A c \in Conns : CompletedCodes(sent[c]) = {Some(1)}

\* The line relay's watcher has signalled stop and the relay has returned.
C16_WitnessLine ==
    /\ server = "line"
    /\ exit_code = Some(0) /\ ~running /\ watch_pc = "done"
    /\ ParseInt(sentinelText) = Some(7)
    /\ srv_pc = "done"

\* run_nextflow has finished, by a return or by an exception.
RunFinished == server = "pty" /\ pty_pc \in {"linger", "done"}

\* C17: when run_nextflow has finished, on whatever path, a master descriptor
\* that was opened has been closed exactly once and self.master_fd holds no
\* descriptor, and a child that was spawned runs no more and has been waited
\* for; a child is never ended by the relay except in the finally block, by
\* terminate (-15) or, after the grace period, kill (-9).
C17_CleanupOnEveryPath ==
    /\ [](RunFinished =>
            /\ master_fd \in {"none", "closed"}
            /\ fd_closes = (IF master_fd = "closed" THEN 1 ELSE 0)
            /\ proc.st \in {"none", "reaped"})
    /\ [][(proc.st = "alive" /\ proc'.st = "reaped")
          => (proc'.code \in {-15, -9} /\ pty_pc = "running" /\ pty_pc' = "done")]_vars

\* The run was cancelled while the child ran; the child did not end on
\* terminate and was killed.
C17_Witness ==
    /\ RunFinished
    /\ proc = [st |-> "reaped", code |-> -9]
    /\ master_fd = "closed" /\ fd_closes = 1
    /\ pty_ret = None

\* Normal completion.
C17_WitnessNormal ==
    /\ RunFinished
    /\ proc = [st |-> "reaped", code |-> 7]
    /\ master_fd = "closed" /\ fd_closes = 1
    /\ pty_ret = Some(7)

\* Popen failed: there is a descriptor to close and no child.
C17_WitnessNoChild ==
    /\ RunFinished
    /\ proc.st = "none"
    /\ master_fd = "closed" /\ fd_closes = 1
    /\ pty_ret = Some(1)

\* The last message written to connection c.
LastSent(c) == sent'[c][Len(sent'[c])]

\* C20: when pty.openpty or Popen raises in run_nextflow, the observer is
\* sent a Status with status 'error' that carries the text of the exception,
\* no observer gets a 'started' or a 'completed' Status, and run_nextflow
\* returns 1.
C20_SpawnFailureIsReported ==
    /\ []((server = "pty" /\ raised # None) =>
            /\ pty_ret = Some(1)
            /\ \A c \in Conns : /\ ~HasStatus(sent[c], "started")
                                /\ ~HasStatus(sent[c], "completed"))
    /\ [][(raised = None /\ raised' # None) =>
            \A c \in Conns :
               (client_websocket = Some(c) /\ net[c] = "up") =>
                  /\ Len(sent'[c]) > Len(sent[c])
                  /\ LastSent(c).type = "status"
                  /\ LastSent(c).status = "error"
                  /\ LastSent(c).data
                       = <<"[", "E">> \o Str(raised'[1].errno) \o <<"]">>]_vars

\* Popen failed with EACCES and the observer has been told so.
C20_Witness ==
    /\ server = "pty" /\ raised = Some([errno |-> 13])
    /\ pty_ret = Some(1) /\ master_fd = "closed"
    /\ \E c \in Conns :
          /\ HasStatus(sent[c], "starting") /\ HasStatus(sent[c], "error")
          /\ sent[c][Len(sent[c])].data = <<"[", "E", "1", "3", "]">>

\* pty.openpty failed: the error is the only message of the run.
C20_WitnessNoTerminal ==
    /\ server = "pty" /\ raised # None
    /\ pty_ret = Some(1) /\ master_fd = "none"
    /\ \E c \in Conns :
          /\ ~HasStatus(sent[c], "starting") /\ HasStatus(sent[c], "error")

\* C18: pty_wrapper.py ends with the exit code of its command: when the
\* command has ended with exit code c in 0..255 and the wrapper has exited,
\* the wrapper's exit status is c.
C18_WrapperPropagatesExitCode ==
    (server = "wrapper" /\ tool_exit # None /\ proc.st = "reaped")
    => tool_exit = Some(proc.code)

\* C19: nextflow_runner.py creates the sentinel only when its command has
\* ended and everything the command wrote is in the output file, flushed and
\* closed; what it writes to the sentinel is the decimal exit code of the
\* command, and that code is the runner's own exit status.
C19_SentinelAfterOutput ==
    (server = "runner" /\ sentinel # "absent") =>
        /\ ChildGone /\ out_f = "closed"
        /\ logfile = childOut
        /\ tool_pc \in {"written", "done"} => sentinelText = Str(proc.code)
        /\ tool_exit # None => tool_exit = Some(proc.code)

\* C21: a file-tail reader starts at offset 0. When it opens the file its
\* cursor is 0, the first chunk it reads and sends is the beginning of the file
\* as it is then, whatever was written before the observer connected, and its
\* cursor never goes back, so data appended later comes after.
C21_ReaderStartsAtZero ==
    [][/\ (tail_pc \in {"start", "waitfile"} /\ tail_pc' = "run") => pos' = 0
       /\ (tail_pc = "run" /\ pos = 0 /\ pos' > 0) =>
            \A c \in Conns : OutputDelivered(c) =>
                LastSent(c).data = RStrip(Decode(ReadLine(logfile, 0)))
       /\ pos' >= pos \/ tail_pc = "start"
       /\ \A c \in Conns :
            /\ (task[c].pc \in {"start", "waitlog"} /\ task'[c].pc = "run") =>
                  task'[c].position = 0
            /\ (task[c].pc = "run" /\ task[c].position = 0
                /\ task'[c].position > 0 /\ OutputDelivered(c)) =>
                  LastSent(c).data = Decode(ReadBlock(logfile, 0, ChunkSize))
            /\ task'[c].position >= task[c].position]_vars

\* The file held two bytes before the observer was admitted; the line reader
\* has sent the first line and is at the second.
C21_Witness ==
    /\ server = "line"
    /\ nWritten = 2 /\ logfile[1] = "a"
    /\ line_count = 1 /\ pos = 1
    /\ \E c \in Conns : OutputCount(sent[c]) = 1 /\ last_offset[c] = 0

\* The same for the raw reader, whose first block is the whole file.
C21_WitnessRaw ==
    /\ server = "raw"
    /\ nWritten = 2
    /\ \E c \in Conns :
          /\ OutputCount(sent[c]) = 1 /\ last_offset[c] = 0
          /\ task[c].position = 2

CodeRead ==
    IF readText.kind = "text" /\ ParseInt(readText.text) # None
    THEN ParseInt(readText.text)
    ELSE Some(0)

C23_WitnessPty ==
    /\ server = "pty" /\ pty_ret = Some(7) /\ raised = None
    /\ \E c \in Conns : OutputCount(sent[c]) > 0
    /\ \A c \in Conns : ~HasStatus(sent[c], "completed")

\* The place of a state of run_nextflow in the order AwaitingClient, Running
\* (entered through Starting within one step), Completed.
PtyRank(pc) ==
    CASE pc = "wait_client" -> 0
      [] pc = "running" -> 1
      [] pc = "cancelling" -> 2
      [] pc = "linger" -> 3
      [] OTHER -> 4

\* C24: NextflowPTYServer passes through AwaitingClient, Starting, Running
\* and Completed in this order only. The child is spawned only in a step
\* that finds a session admitted and has sent 'starting'; an Output message
\* is sent only while the run is in Running, after the 'started' Status was
\* sent, and follows 'started' on the connection that got it; a 'completed'
\* Status is sent only when the child has terminated and been waited for.
C24_PtyStatesInOrder ==
    /\ [](server = "pty" =>
            \A c \in Conns : \A i \in 1..Len(sent[c]) :
               /\ sent[c][i].type = "output" =>
                     /\ pty_pc # "wait_client" /\ proc.st # "none"
                     /\ \A j \in StatusAt(sent[c], "started") : j < i
                     /\ \A j \in StatusAt(sent[c], "starting") :
                           \E k \in StatusAt(sent[c], "started") : j < k
               /\ i \in StatusAt(sent[c], "completed") =>
                     /\ proc.st = "reaped" /\ proc.code \in ChildCodes
                     /\ pty_pc \in {"linger", "done"}
                     /\ StatusAt(sent[c], "completed") = {i})
    /\ [][server = "pty" =>
            /\ PtyRank(pty_pc') >= PtyRank(pty_pc)
            /\ (proc.st = "none" /\ proc'.st # "none") =>
                  /\ client_websocket # None /\ pty_pc = "wait_client"
                  /\ pty_pc' = "running" /\ proc'.st = "alive"
            /\ (\E c \in Conns : OutputDelivered(c)) =>
                  (pty_pc = "running" /\ pty_pc' = "running")
            /\ (pty_pc \in {"linger", "done"}) => sent' = sent]_vars

\* A run that went through all four states with one observer, who received
\* 'starting', 'started', output and 'completed' with the child's code 7.
C24_Witness ==
    /\ server = "pty" /\ pty_pc = "done" /\ pty_ret = Some(7)
    /\ \E c \in Conns :
          /\ HasStatus(sent[c], "starting") /\ HasStatus(sent[c], "started")
          /\ OutputCount(sent[c]) > 0
          /\ CompletedCodes(sent[c]) = {Some(7)}

\* C25: a file-tail relay waits for its log file before it waits for an
\* observer. The wait for the file, with its timeout, begins only while no
\* connection has been admitted yet, and LogFileWebSocketServer leaves its
\* wait for a client only when the file exists.
C25_SourceBeforeClient ==
    [][/\ (tail_pc # "waitfile" /\ tail_pc' = "waitfile") =>
            \A c \in Conns : conn[c] = "new"
       /\ \A c \in Conns :
            (task[c].pc # "waitlog" /\ task'[c].pc = "waitlog") =>
                \A d \in Conns : conn[d] = "new"
       /\ (srv_pc = "wait_client" /\ srv_pc' = "gather") => logExists]_vars

\* C26: in NextflowLogServer, a pass of stream_logs that finds the log file
\* shorter than its position (the file was truncated below it) resets the
\* position to 0, so that the relay reads the new contents from their start.
C26_RawResetsAfterTruncation ==
    [][\A c \in Conns :
          (/\ task[c].pc \in {"run", "ready", "sleep"}
           /\ task'[c].pc \in {"run", "ready", "sleep", "done"}
           /\ task'[c] # task[c]
           /\ task[c].position > Len(logfile)) =>
              task'[c].position = 0]_vars

\* The number of Output messages delivered to connections 1..n.
RECURSIVE OutputsUpTo(_)
OutputsUpTo(n) ==
    IF n = 0 THEN 0 ELSE OutputCount(sent[n]) + OutputsUpTo(n - 1)

\* C27: in LogFileWebSocketServer, the lines_sent of a 'completed' Status
\* that is delivered equals the number of Output messages that were
\* delivered to observers during the run, whatever disconnects, failed sends
\* and reconnects there were.
C27_LinesSentCountsDeliveries ==
    server = "line" =>
        \A c \in Conns : \A i \in StatusAt(sent[c], "completed") :
            sent[c][i].lines_sent = Some(OutputsUpTo(MaxConns))

\* The second observer is told of two lines sent, one to the first observer
\* and one to itself.
C27_Witness ==
    /\ server = "line"
    /\ OutputCount(sent[1]) = 1 /\ OutputCount(sent[2]) = 1
    /\ \E i \in StatusAt(sent[2], "completed") :
          sent[2][i].lines_sent = Some(2)

\* C28: the session handle is returned to Idle only by events of the
\* connection it holds. While the server runs, a step that clears
\* client_websocket when it holds connection d is a failed send to d or the
\* end of d's own handler, never the end of another connection's handler;
\* and in NextflowLogServer the streaming task of an admitted connection is
\* cancelled only by that connection's handler.
C28_OnlyOwnerClearsHandle ==
    [][\A d \in Conns :
          /\ (/\ client_websocket = Some(d) /\ client_websocket' = None
              /\ srv_pc' = srv_pc /\ pty_pc' = pty_pc) =>
                 \A c \in Conns \ {d} : conn'[c] = conn[c]
          /\ (/\ conn[d] = "admitted" /\ task[d].pc # "cancelled"
              /\ task'[d].pc = "cancelled") =>
                 conn'[d] = "closing"]_vars

\* C29: with nextflow_runner.py producing and a file-tail relay reading, the
\* relay reads from the sentinel file only the text the runner writes to it,
\* complete, and the exit code it resolves, reports in 'completed' and
\* returns is the exit code of the runner's command.
C29_SentinelReadWhole ==
    /\ readText.kind # "none" =>
          /\ tool_code # None
          /\ readText = ReadOf(Str(tool_code[1]))
    /\ exit_code # None => exit_code = tool_code
    /\ \A c \in Conns : CompletedCodes(sent[c]) \subseteq {tool_code}
    /\ (server = "line" /\ srv_pc = "done" /\ watch_pc = "done") =>
          srv_ret = tool_code

\* C30: in every relay, 'completed' is the last message of a run on a
\* session: no Output message follows a 'completed' Status on a connection.
C30_CompletedIsLast ==
    \A c \in Conns : \A i \in StatusAt(sent[c], "completed") :
        \A j \in (i + 1)..Len(sent[c]) : sent[c][j].type # "output"

\* C31: in NextflowPTYServer the master descriptor is never closed while a
\* read handed to the worker thread is still in flight: no step closes the
\* descriptor while the thread is in _read_pty_data, and the thread is never
\* in a read on a descriptor that has been closed.
C31_NoCloseDuringRead ==
    /\ [](server = "pty" /\ thr = "reading" => master_fd = "open")
    /\ [][(server = "pty" /\ fd_closes' > fd_closes) => thr # "reading"]_vars

\* C32: in LogFileWebSocketServer the watcher resolves the exit code in the
\* step in which it signals stop: while start_server runs, the step that
\* clears running sets exit_code, a cleared running comes with a resolved
\* exit_code, the resolved code does not change, and every 'completed'
\* Status that is delivered carries an exit code.
C32_ExitCodeBeforeStop ==
    /\ [](server = "line" =>
            /\ (~running /\ srv_pc # "done") => exit_code # None
            /\ \A c \in Conns : None \notin CompletedCodes(sent[c]))
    /\ [][server = "line" =>
            /\ (running /\ ~running' /\ srv_pc' # "done") =>
                  (exit_code = None /\ exit_code' # None
                   /\ watch_pc = "beat" /\ watch_pc' = "done")
            /\ (tail_pc # "done" /\ tail_pc' = "done" /\ ~running) =>
                  \A c \in Conns : Len(sent'[c]) > Len(sent[c]) =>
                      /\ LastSent(c).status = "completed"
                      /\ LastSent(c).exit_code = exit_code
                      /\ exit_code # None
            /\ exit_code # None => exit_code' = exit_code]_vars

\* The reader has left its loop on the watcher's signal with the observer
\* connected, after one line, and 'completed' with code 7 was delivered.
C32_Witness ==
    /\ server = "line" /\ ~running /\ srv_pc = "gather"
    /\ tail_pc = "done" /\ watch_pc = "done" /\ line_count = 1
    /\ \E c \in Conns :
          /\ client_websocket = Some(c)
          /\ CompletedCodes(sent[c]) = {Some(7)}

====
